---- MODULE Spec2Model ----
(***************************************************************************)
(* Model of src/main.py: a Telegram logger bot that long-polls getUpdates, *)
(* persists the poll offset in tg_meta, answers /start and /stats, and     *)
(* stores group messages in tg_messages with per-(chat,user) counters in   *)
(* tg_user_stats.                                                          *)
(*                                                                         *)
(* The upstream (Telegram) is modelled as a log of updates whose update_id *)
(* is the position in the log, plus the highest confirmed update_id.       *)
(* Delivery is at-least-once: the same message (chat_id, msg_id) may be    *)
(* carried by more than one update.                                        *)
(***************************************************************************)
EXTENDS Integers, Sequences, FiniteSets, TLC

\* ------------------------------------------------------------------ bounds
\* Updates the upstream receives over a run, re-deliveries included.
MaxUpdates == 2
\* Abrupt terminations of the process over a run.
MaxCrashes == 1
\* Threads that call poll_loop() at the same time.
NumThreads == 3
\* Invocations of save_message_to_mongo that run at the same time.
NumWorkers == 2

\* ------------------------------------------------------- values and inputs
\* get_offset() returns None when no poll_offset document exists.
None == 0

\* chat.type of the chats of the model.
ChatType(chat) ==
    CASE chat = 1 -> "group"
      [] chat = 2 -> "private"
      [] OTHER    -> "supergroup"

\* An update without update.message (edited message, channel post, ...).
NoMessage ==
    [kind |-> "none", chat |-> 0, user |-> 0, msg_id |-> 0, ts |-> 0, text |-> ""]

\* A service notification in the group (new_chat_members and the like): it
\* has a message, no text.
ServiceMsg ==
    [kind |-> "service", chat |-> 1, user |-> 1, msg_id |-> 4, ts |-> 1, text |-> ""]

Msg(chat, user, msg_id, ts, text) ==
    [kind |-> "msg", chat |-> chat, user |-> user, msg_id |-> msg_id,
     ts |-> ts, text |-> text]

\* The payloads the upstream may deliver, any number of times each.
Payloads ==
    { NoMessage,
      ServiceMsg,
      Msg(2, 1, 1, 1, "/start"),      \* private chat
      Msg(1, 1, 1, 2, "/start"),      \* group, later timestamp
      Msg(1, 1, 2, 1, " /stats "),    \* group, earlier timestamp, padded text
      Msg(3, 2, 1, 2, "hi") }         \* supergroup, another user

Chats == {1, 2, 3}
Users == {1, 2}

Threads == 1..NumThreads
Workers == 1..NumWorkers

\* ------------------------------------------------------------------- state
VARIABLES
    upstream,         \* Telegram's log of updates; update_id = position
    confirmed,        \* highest update_id Telegram regards as confirmed
    meta,             \* tg_meta poll_offset value (None when absent)
    messages,         \* tg_messages, in insertion order
    userstats,        \* tg_user_stats: set of documents
    polling_started,  \* the module-level flag
    pc,               \* position of the poll loop
    offset,           \* poll_loop's local offset
    updates,          \* poll_loop's local updates (sequence of update_ids)
    idx,              \* position of upd in updates (0: not iterating)
    saveCalled,       \* positions of updates passed to save_message_to_mongo
    reply,            \* per position of updates: "none", "sent" or "failed"
    crashes,          \* number of process terminations so far
    atCrash,          \* the stores as they were at the last termination
    handled,          \* documents save_message_to_mongo called insert_one with
    faulted,          \* documents whose insert_one or update_one raised a
                      \* PyMongoError, or was cut off by a termination
    lastFetch,        \* how the last get_updates ended: "none", "batch",
                      \* "empty", "timeout" or "error"
    statsSent,        \* the numbers of the last /stats reply sent
    tpc,              \* per thread calling poll_loop(): its position
    wpc,              \* per concurrent save_message_to_mongo: its position
    wupd              \* per concurrent save_message_to_mongo: its update

vars == <<upstream, confirmed, meta, messages, userstats, polling_started, pc,
          offset, updates, idx, saveCalled, reply, crashes, atCrash, handled,
          faulted, lastFetch, statsSent, tpc, wpc, wupd>>

durable == <<upstream, confirmed, meta, messages, userstats>>
locals  == <<offset, updates, idx, saveCalled, reply>>
history == <<crashes, atCrash, handled, faulted>>
conc    == <<tpc, wpc, wupd>>
rest    == <<lastFetch, statsSent, tpc, wpc, wupd>>

\* ----------------------------------------------------------------- helpers
Max(a, b) == IF a >= b THEN a ELSE b

Last(s) == s[Len(s)]

\* update_id of the update at a position of the log.
Upd(id) == upstream[id]

\* str.strip() on the texts of the model.
Strip(t) ==
    CASE t = " /stats " -> "/stats"
      [] t = " /start " -> "/start"
      [] OTHER          -> t

is_service_message(u) == u.kind = "service"

\* Faulty variant: private chats pass the test of line 109 too.
is_any_chat(chat_type) == chat_type \in {"group", "supergroup", "private"}

is_group_chat(chat_type) == chat_type \in {"group", "supergroup"}

\* The early returns of save_message_to_mongo: what reaches insert_one.
Loggable(u) ==
    /\ u.kind # "none"
    /\ ~is_service_message(u)
    /\ is_group_chat(ChatType(u.chat))

\* `upd.message and upd.message.text`, then the stripped text.
CommandOf(u) ==
    IF u.kind = "msg" /\ u.text # "" THEN Strip(u.text) ELSE ""

IsCommand(u) == CommandOf(u) \in {"/start", "/stats"}

Key(u) == <<u.chat, u.msg_id>>

Doc(u) ==
    [chat_id |-> u.chat, user_id |-> u.user, ts |-> u.ts, msg_id |-> u.msg_id,
     chat_type |-> ChatType(u.chat)]

StoredKeys(msgs) == { <<msgs[i].chat_id, msgs[i].msg_id>> : i \in DOMAIN msgs }

\* Faulty variant: tg_messages without the unique index of line 53.
NoUniqueIndex(msgs, doc) == FALSE

\* The unique index on (chat_id, msg_id): insert_one raises DuplicateKeyError.
DuplicateKey(msgs, doc) == <<doc.chat_id, doc.msg_id>> \in StoredKeys(msgs)

\* Number of tg_messages rows with a key / of a (chat, user) pair.
Rows(msgs, key) ==
    Cardinality({ i \in DOMAIN msgs : <<msgs[i].chat_id, msgs[i].msg_id>> = key })

RowsOf(msgs, chat, user) ==
    Cardinality({ i \in DOMAIN msgs :
                    msgs[i].chat_id = chat /\ msgs[i].user_id = user })

StatsOf(stats, chat, user) ==
    { s \in stats : s.chat_id = chat /\ s.user_id = user }

\* Faulty variant: the $inc is applied without the $set of last_seen.
UpsertCountOnly(stats, chat, user, ts) ==
    IF StatsOf(stats, chat, user) = {}
    THEN stats \cup { [chat_id |-> chat, user_id |-> user, first_seen |-> ts,
                       last_seen |-> ts, msg_count |-> 1] }
    ELSE { IF s.chat_id = chat /\ s.user_id = user
           THEN [s EXCEPT !.msg_count = @ + 1]
           ELSE s : s \in stats }

\* userstats_col.update_one(..., upsert=True): $setOnInsert, $set, $inc.
Upsert(stats, chat, user, ts) ==
    IF StatsOf(stats, chat, user) = {}
    THEN stats \cup { [chat_id |-> chat, user_id |-> user, first_seen |-> ts,
                       last_seen |-> ts, msg_count |-> 1] }
    ELSE { IF s.chat_id = chat /\ s.user_id = user
           THEN [s EXCEPT !.last_seen = ts, !.msg_count = @ + 1]
           ELSE s : s \in stats }

\* bot.get_updates(offset=...): Telegram confirms every update below offset
\* and returns the unconfirmed updates.
ConfirmedAfter(conf, off) == IF off = None THEN conf ELSE Max(conf, off - 1)

GetUpdates(log, conf, off) ==
    LET c == ConfirmedAfter(conf, off)
    IN  [ i \in 1..(Len(log) - c) |-> c + i ]

\* Faulty variant: the offset taken from the first update of the batch.
NextOffsetFirst(upds) == upds[1] + 1

\* Faulty variant: the offset taken from the number of updates fetched.
NextOffsetCount(upds) == Len(upds)

\* offset = updates[-1].update_id + 1
NextOffset(upds) == Last(upds) + 1

\* Faulty variant: "this chat" counted without the chat_id filter.
reply_stats_unfiltered(msgs, stats, chat_id) ==
    [chat        |-> chat_id,
     total_msgs  |-> Len(msgs),
     total_chats |-> Cardinality({ msgs[i].chat_id : i \in DOMAIN msgs }),
     total_users |-> Cardinality({ s.user_id : s \in stats }),
     chat_msgs   |-> Len(msgs),
     chat_users  |-> Cardinality(stats)]

\* reply_stats: the five numbers of the reply text (lines 156-171).
reply_stats(msgs, stats, chat_id) ==
    [chat        |-> chat_id,
     total_msgs  |-> Len(msgs),
     total_chats |-> Cardinality({ msgs[i].chat_id : i \in DOMAIN msgs }),
     total_users |-> Cardinality({ s.user_id : s \in stats }),
     chat_msgs   |-> Cardinality({ i \in DOMAIN msgs : msgs[i].chat_id = chat_id }),
     chat_users  |-> Cardinality({ s \in stats : s.chat_id = chat_id })]

\* No /stats reply sent yet.
NoStats ==
    [chat |-> 0, total_msgs |-> 0, total_chats |-> 0, total_users |-> 0,
     chat_msgs |-> 0, chat_users |-> 0]

\* ---------------------------------------------------------------- initial
Init ==
    /\ upstream = <<>>
    /\ confirmed = 0
    /\ meta = None
    /\ messages = <<>>
    /\ userstats = {}
    /\ polling_started = FALSE
    /\ pc = "guard"
    /\ offset = None
    /\ updates = <<>>
    /\ idx = 0
    /\ saveCalled = {}
    /\ reply = <<>>
    /\ crashes = 0
    /\ atCrash = [messages |-> <<>>, userstats |-> {}, meta |-> None]
    /\ handled = {}
    /\ faulted = {}
    /\ lastFetch = "none"
    /\ statsSent = NoStats
    /\ tpc = [t \in Threads |-> "idle"]
    /\ wpc = [w \in Workers |-> "idle"]
    /\ wupd = [w \in Workers |-> NoMessage]

\* ------------------------------------------------------------ environment
\* The upstream receives (or re-delivers) an update.
Arrive ==
    /\ Len(upstream) < MaxUpdates
    /\ \E p \in Payloads : upstream' = Append(upstream, p)
    /\ UNCHANGED <<confirmed, meta, messages, userstats, polling_started, pc,
                   offset, updates, idx, saveCalled, reply, history>>
    /\ UNCHANGED rest

\* Abrupt termination of the process: the stores and the upstream survive.
Crash ==
    /\ pc # "down"
    /\ crashes < MaxCrashes
    /\ crashes' = crashes + 1
    /\ atCrash' = [messages |-> messages, userstats |-> userstats, meta |-> meta]
    /\ pc' = "down"
    /\ polling_started' = FALSE
    /\ offset' = None
    /\ updates' = <<>>
    /\ idx' = 0
    /\ saveCalled' = {}
    /\ faulted' = IF pc = "update" THEN faulted \cup {Doc(Upd(updates[idx]))}
                                 ELSE faulted
    /\ reply' = <<>>
    /\ UNCHANGED <<durable, handled>>
    /\ lastFetch' = "none"
    /\ UNCHANGED <<statsSent, conc>>

\* The process is started again: the polling thread calls poll_loop().
Restart ==
    /\ pc = "down"
    /\ pc' = "guard"
    /\ UNCHANGED <<durable, polling_started, locals, history>>
    /\ UNCHANGED rest


\* ---------------------------------------------------------------- poll_loop
\* Lines 181-184: the start guard.
Guard ==
    /\ pc = "guard"
    /\ IF polling_started
       THEN pc' = "returned" /\ UNCHANGED polling_started
       ELSE pc' = "load" /\ polling_started' = TRUE
    /\ UNCHANGED <<durable, locals, history>>
    /\ UNCHANGED rest

\* Line 188: offset = get_offset().
LoadOffset ==
    /\ pc = "load"
    /\ offset' = meta
    /\ pc' = "delete_webhook"
    /\ UNCHANGED <<durable, polling_started, updates, idx, saveCalled, reply,
                   history>>
    /\ UNCHANGED rest

\* Line 188 when find_one raises: nothing in poll_loop catches it, the
\* coroutine and its thread end.
LoadOffsetFail ==
    /\ pc = "load"
    /\ pc' = "dead"
    /\ UNCHANGED <<durable, polling_started, locals, history>>
    /\ UNCHANGED rest

\* Line 193: delete_webhook(drop_pending_updates=True) drops every update
\* the upstream still holds.
DeleteWebhook ==
    /\ pc = "delete_webhook"
    /\ confirmed' = Len(upstream)
    /\ pc' = "fetch"
    /\ UNCHANGED <<upstream, meta, messages, userstats, polling_started, locals,
                   history>>
    /\ UNCHANGED rest

\* Lines 195-196: delete_webhook failed, logged.
DeleteWebhookFail ==
    /\ pc = "delete_webhook"
    /\ pc' = "fetch"
    /\ UNCHANGED <<durable, polling_started, locals, history>>
    /\ UNCHANGED rest

\* Lines 203-208: get_updates returned (possibly nothing).
Fetch ==
    /\ pc = "fetch"
    /\ LET got == GetUpdates(upstream, confirmed, offset)
       IN  /\ confirmed' = ConfirmedAfter(confirmed, offset)
           /\ updates' = got
           /\ reply' = [i \in DOMAIN got |-> "none"]
           /\ pc' = IF got = <<>> THEN "check" ELSE "set_offset"
    /\ idx' = 0
    /\ saveCalled' = {}
    /\ UNCHANGED <<upstream, meta, messages, userstats, polling_started, offset,
                   history>>
    /\ lastFetch' = IF GetUpdates(upstream, confirmed, offset) = <<>>
                    THEN "empty" ELSE "batch"
    /\ UNCHANGED <<statsSent, conc>>

\* Lines 229-230: asyncio.TimeoutError, passed over.
FetchTimeout ==
    /\ pc = "fetch"
    /\ pc' = "check"
    /\ UNCHANGED <<durable, polling_started, locals, history>>
    /\ lastFetch' = "timeout"
    /\ UNCHANGED <<statsSent, conc>>

\* Lines 231-232: any other error of get_updates, logged.
FetchError ==
    /\ pc = "fetch"
    /\ pc' = "check"
    /\ UNCHANGED <<durable, polling_started, locals, history>>
    /\ lastFetch' = "error"
    /\ UNCHANGED <<statsSent, conc>>

\* Lines 209-210: the offset moves past the batch and is persisted, before
\* any update of the batch is handled.
SetOffset ==
    /\ pc = "set_offset"
    /\ offset' = NextOffset(updates)
    /\ meta' = NextOffset(updates)
    /\ idx' = 1
    /\ pc' = "dispatch"
    /\ UNCHANGED <<upstream, confirmed, messages, userstats, polling_started,
                   updates, saveCalled, reply, history>>
    /\ UNCHANGED rest

\* Line 210 raising: the local offset has moved, the stored one has not; the
\* exception leaves the try block (lines 231-232) and the batch is not handled.
SetOffsetFail ==
    /\ pc = "set_offset"
    /\ offset' = NextOffset(updates)
    /\ pc' = "check"
    /\ UNCHANGED <<durable, polling_started, updates, idx, saveCalled, reply,
                   history>>
    /\ UNCHANGED rest

\* The update the for loop is at.
Cur == Upd(updates[idx])

\* Lines 214-224 for an update that is no command.
Dispatch ==
    /\ pc = "dispatch"
    /\ ~IsCommand(Cur)
    /\ pc' = "save"
    /\ UNCHANGED <<durable, polling_started, locals, history>>
    /\ UNCHANGED rest

\* Lines 217-224: /start or /stats answered.
Reply ==
    /\ pc = "dispatch"
    /\ IsCommand(Cur)
    /\ reply' = [reply EXCEPT ![idx] = "sent"]
    /\ pc' = "save"
    /\ UNCHANGED <<durable, polling_started, offset, updates, idx, saveCalled,
                   history>>
    /\ statsSent' = IF CommandOf(Cur) = "/stats"
                    THEN reply_stats(messages, userstats, Cur.chat)
                    ELSE statsSent
    /\ UNCHANGED <<lastFetch, conc>>

\* Lines 217-224 raising (send_message, or a query of reply_stats): the
\* exception leaves the for loop and is caught at lines 231-232.
ReplyFail ==
    /\ pc = "dispatch"
    /\ IsCommand(Cur)
    /\ reply' = [reply EXCEPT ![idx] = "failed"]
    /\ pc' = "check"
    /\ UNCHANGED <<durable, polling_started, offset, updates, idx, saveCalled,
                   history>>
    /\ UNCHANGED rest

\* The for loop moves to the next update, or the try block ends.
AfterSave(i, n) ==
    IF i < n THEN [pc |-> "dispatch", idx |-> i + 1]
             ELSE [pc |-> "check", idx |-> i]

\* Faulty variant: the duplicate-key error swallowed around insert_one alone, so that
\* the counters are updated all the same.
OnDuplicateKeyPass(i, n) == [pc |-> "update", idx |-> i]

\* Lines 147-148: except DuplicateKeyError: return.
OnDuplicateKey(i, n) == AfterSave(i, n)

\* Lines 98-110: save_message_to_mongo returns without touching the stores.
SaveSkip ==
    /\ pc = "save"
    /\ ~Loggable(Cur)
    /\ saveCalled' = saveCalled \cup {idx}
    /\ pc' = AfterSave(idx, Len(updates)).pc
    /\ idx' = AfterSave(idx, Len(updates)).idx
    /\ UNCHANGED <<durable, polling_started, offset, updates, reply, history>>
    /\ UNCHANGED rest

\* Line 127: insert_one of a fresh key.
InsertOne ==
    /\ pc = "save"
    /\ Loggable(Cur)
    /\ ~DuplicateKey(messages, Doc(Cur))
    /\ messages' = Append(messages, Doc(Cur))
    /\ saveCalled' = saveCalled \cup {idx}
    /\ handled' = handled \cup {Doc(Cur)}
    /\ pc' = "update"
    /\ UNCHANGED <<upstream, confirmed, meta, userstats, polling_started, offset,
                   updates, idx, reply, crashes, atCrash, faulted>>
    /\ UNCHANGED rest

\* Line 127 raising DuplicateKeyError, lines 147-148.
InsertDuplicate ==
    /\ pc = "save"
    /\ Loggable(Cur)
    /\ DuplicateKey(messages, Doc(Cur))
    /\ saveCalled' = saveCalled \cup {idx}
    /\ handled' = handled \cup {Doc(Cur)}
    /\ pc' = OnDuplicateKey(idx, Len(updates)).pc
    /\ idx' = OnDuplicateKey(idx, Len(updates)).idx
    /\ UNCHANGED <<durable, polling_started, offset, updates, reply, crashes,
                   atCrash, faulted>>
    /\ UNCHANGED rest

\* Line 127 raising another PyMongoError, lines 149-150.
InsertFail ==
    /\ pc = "save"
    /\ Loggable(Cur)
    /\ saveCalled' = saveCalled \cup {idx}
    /\ handled' = handled \cup {Doc(Cur)}
    /\ faulted' = faulted \cup {Doc(Cur)}
    /\ pc' = AfterSave(idx, Len(updates)).pc
    /\ idx' = AfterSave(idx, Len(updates)).idx
    /\ UNCHANGED <<durable, polling_started, offset, updates, reply, crashes,
                   atCrash>>
    /\ UNCHANGED rest

\* Lines 129-145: the upsert of the (chat, user) counters.
UpdateStats ==
    /\ pc = "update"
    /\ userstats' = Upsert(userstats, Cur.chat, Cur.user, Cur.ts)
    /\ pc' = AfterSave(idx, Len(updates)).pc
    /\ idx' = AfterSave(idx, Len(updates)).idx
    /\ UNCHANGED <<upstream, confirmed, meta, messages, polling_started, offset,
                   updates, saveCalled, reply, history>>
    /\ UNCHANGED rest

\* Lines 129-145 raising PyMongoError, lines 149-150.
UpdateStatsFail ==
    /\ pc = "update"
    /\ faulted' = faulted \cup {Doc(Cur)}
    /\ pc' = AfterSave(idx, Len(updates)).pc
    /\ idx' = AfterSave(idx, Len(updates)).idx
    /\ UNCHANGED <<durable, polling_started, offset, updates, saveCalled, reply,
                   crashes, atCrash, handled>>
    /\ UNCHANGED rest

\* Line 201: less than 1.2 s since start_time, another fetch. A fetch that
\* ended by asyncio.TimeoutError took 6 s (line 205) and one that returned no
\* update took the 5 s of the long poll (line 204): after those the window of
\* 1.2 s is over.
WindowOpen ==
    /\ pc = "check"
    /\ lastFetch \in {"batch", "error"}
    /\ pc' = "fetch"
    /\ UNCHANGED <<durable, polling_started, locals, history>>
    /\ UNCHANGED rest

\* Line 201: the active window is over.
WindowElapsed ==
    /\ pc = "check"
    /\ pc' = "sleep"
    /\ UNCHANGED <<durable, polling_started, locals, history>>
    /\ UNCHANGED rest

\* Lines 234, 199-201: asyncio.sleep(3), then a new window and its first fetch.
Sleep ==
    /\ pc = "sleep"
    /\ pc' = "fetch"
    /\ UNCHANGED <<durable, polling_started, locals, history>>
    /\ UNCHANGED rest

Next ==
    \/ Arrive
    \/ Crash
    \/ Restart
    \/ Guard
    \/ LoadOffset
    \/ LoadOffsetFail
    \/ DeleteWebhook
    \/ DeleteWebhookFail
    \/ Fetch
    \/ FetchTimeout
    \/ FetchError
    \/ SetOffset
    \/ SetOffsetFail
    \/ Dispatch
    \/ Reply
    \/ ReplyFail
    \/ SaveSkip
    \/ InsertOne
    \/ InsertDuplicate
    \/ InsertFail
    \/ UpdateStats
    \/ UpdateStatsFail
    \/ WindowOpen
    \/ WindowElapsed
    \/ Sleep

Spec == Init /\ [][Next]_vars


\* ------------------------------------------- poll_loop called by several threads
\* start_polling_thread runs asyncio.run(poll_loop()) in the calling thread.
\* Each thread has its own event loop, so the statements of lines 181-184 of
\* one thread interleave with those of another.
main == <<upstream, confirmed, meta, messages, userstats, pc, locals, history,
          lastFetch, statsSent>>

\* Lines 236-237: a thread calls poll_loop().
TCall(t) ==
    /\ tpc[t] = "idle"
    /\ tpc' = [tpc EXCEPT ![t] = "guard"]
    /\ UNCHANGED <<main, polling_started, wpc, wupd>>

\* Lines 181-183: the flag is read.
TCheck(t) ==
    /\ tpc[t] = "guard"
    /\ tpc' = [tpc EXCEPT ![t] = IF polling_started THEN "returned" ELSE "set"]
    /\ UNCHANGED <<main, polling_started, wpc, wupd>>

\* Line 184: the flag is written.
TSet(t) ==
    /\ tpc[t] = "set"
    /\ polling_started' = TRUE
    /\ tpc' = [tpc EXCEPT ![t] = "started"]
    /\ UNCHANGED <<main, wpc, wupd>>

\* Lines 186-198: the thread goes on to load the offset and to poll.
TPoll(t) ==
    /\ tpc[t] = "started"
    /\ tpc' = [tpc EXCEPT ![t] = "polling"]
    /\ UNCHANGED <<main, polling_started, wpc, wupd>>

NextStart ==
    \/ \E t \in Threads : TCall(t)
    \/ \E t \in Threads : TCheck(t)
    \/ \E t \in Threads : TSet(t)
    \/ \E t \in Threads : TPoll(t)

SpecStart == Init /\ [][NextStart]_vars

\* ------------------------------- save_message_to_mongo called concurrently
\* Several invocations of save_message_to_mongo (line 227) run against the
\* same collections at the same time, each with an update of its own;
\* insert_one (line 127) and update_one (line 129) are two round trips to
\* the store, each atomic, and the round trips of different invocations
\* interleave.
frame == <<upstream, confirmed, meta, polling_started, pc, locals, crashes,
           atCrash, lastFetch, statsSent, tpc>>

WDoc(w) == Doc(wupd[w])

\* Line 227: save_message_to_mongo(upd) is called.
WCall(w) ==
    /\ wpc[w] = "idle"
    /\ \E p \in Payloads : wupd' = [wupd EXCEPT ![w] = p]
    /\ wpc' = [wpc EXCEPT ![w] = "save"]
    /\ UNCHANGED <<frame, messages, userstats, handled, faulted>>

\* Lines 98-110: the early returns.
WSkip(w) ==
    /\ wpc[w] = "save"
    /\ ~Loggable(wupd[w])
    /\ wpc' = [wpc EXCEPT ![w] = "skipped"]
    /\ UNCHANGED <<frame, messages, userstats, handled, faulted, wupd>>

\* Line 127: insert_one of a fresh key.
WInsert(w) ==
    /\ wpc[w] = "save"
    /\ Loggable(wupd[w])
    /\ ~DuplicateKey(messages, WDoc(w))
    /\ messages' = Append(messages, WDoc(w))
    /\ handled' = handled \cup {WDoc(w)}
    /\ wpc' = [wpc EXCEPT ![w] = "update"]
    /\ UNCHANGED <<frame, userstats, faulted, wupd>>

\* Line 127 raising DuplicateKeyError, lines 147-148.
WDuplicate(w) ==
    /\ wpc[w] = "save"
    /\ Loggable(wupd[w])
    /\ DuplicateKey(messages, WDoc(w))
    /\ handled' = handled \cup {WDoc(w)}
    /\ wpc' = [wpc EXCEPT ![w] = IF OnDuplicateKey(1, 1).pc = "update"
                                 THEN "update" ELSE "duplicate"]
    /\ UNCHANGED <<frame, messages, userstats, faulted, wupd>>

\* Line 127 raising another PyMongoError, lines 149-150.
WInsertFail(w) ==
    /\ wpc[w] = "save"
    /\ Loggable(wupd[w])
    /\ handled' = handled \cup {WDoc(w)}
    /\ faulted' = faulted \cup {WDoc(w)}
    /\ wpc' = [wpc EXCEPT ![w] = "failed"]
    /\ UNCHANGED <<frame, messages, userstats, wupd>>

\* Lines 129-145: the upsert, one atomic operation of the store.
WUpdate(w) ==
    /\ wpc[w] = "update"
    /\ userstats' = Upsert(userstats, wupd[w].chat, wupd[w].user, wupd[w].ts)
    /\ wpc' = [wpc EXCEPT ![w] = "stored"]
    /\ UNCHANGED <<frame, messages, handled, faulted, wupd>>

\* Lines 129-145 raising PyMongoError, lines 149-150.
WUpdateFail(w) ==
    /\ wpc[w] = "update"
    /\ faulted' = faulted \cup {WDoc(w)}
    /\ wpc' = [wpc EXCEPT ![w] = "failed"]
    /\ UNCHANGED <<frame, messages, userstats, handled, wupd>>

\* The process is terminated: no invocation goes on.
WKill ==
    /\ \E w \in Workers : wpc[w] \in {"save", "update"}
    /\ faulted' = faulted \cup { WDoc(w) : w \in { v \in Workers : wpc[v] = "update" } }
    /\ wpc' = [w \in Workers |->
                 IF wpc[w] \in {"idle", "save", "update"} THEN "killed" ELSE wpc[w]]
    /\ UNCHANGED <<frame, messages, userstats, handled, wupd>>

NextSave ==
    \/ \E w \in Workers : WCall(w)
    \/ \E w \in Workers : WSkip(w)
    \/ \E w \in Workers : WInsert(w)
    \/ \E w \in Workers : WDuplicate(w)
    \/ \E w \in Workers : WInsertFail(w)
    \/ \E w \in Workers : WUpdate(w)
    \/ \E w \in Workers : WUpdateFail(w)
    \/ WKill

SpecSave == Init /\ [][NextSave]_vars

\* ------------------------------------------------------- claims: vocabulary
\* msg_count of the (chat, user) document, 0 when there is none.
CountOf(stats, chat, user) ==
    IF StatsOf(stats, chat, user) = {} THEN 0
    ELSE (CHOOSE s \in StatsOf(stats, chat, user) : TRUE).msg_count

\* The for loop over the batch has been entered and left (to its end or by
\* an exception).
BatchLeft == pc = "check" /\ idx >= 1

\* The for loop over the batch ran to its end.
BatchDone == BatchLeft /\ saveCalled = DOMAIN updates

\* -------------------------------------------------------------------- C1
\* C1: in every reachable state every loggable update whose update_id is
\* below the persisted poll offset is already in tg_messages.
C1_StoredBelowCursor ==
    \A i \in DOMAIN upstream :
        (i < meta /\ Loggable(upstream[i]))
            => Key(upstream[i]) \in StoredKeys(messages)

\* -------------------------------------------------------------------- C2
\* Every stored (chat_id, msg_id) has one row, and the counters are updated
\* only right after the insert of the row of the update at hand.
UniqueKeys == \A k \in StoredKeys(messages) : Rows(messages, k) = 1

UpdateFollowsInsert ==
    pc = "update" => (messages # <<>> /\ Last(messages) = Doc(Cur))

\* A step that handles an update whose key is stored changes no store and
\* skips the counters; tg_messages grows only by the row of a fresh key; the
\* counters change only by one increment of the pair of the row just inserted.
DuplicateIsNoOp ==
    (pc = "save" /\ Loggable(Cur) /\ Key(Cur) \in StoredKeys(messages))
        => (messages' = messages /\ userstats' = userstats /\ pc' # "update")

InsertIsFresh ==
    (messages' # messages)
        => /\ pc = "save"
           /\ Key(Cur) \notin StoredKeys(messages)
           /\ messages' = Append(messages, Doc(Cur))
           /\ userstats' = userstats
           /\ pc' = "update"

OneIncrement ==
    (userstats' # userstats)
        => /\ pc = "update" /\ pc' # "update"
           /\ messages' = messages
           /\ \A c \in Chats, u \in Users :
                CountOf(userstats', c, u) =
                    CountOf(userstats, c, u)
                      + (IF c = Cur.chat /\ u = Cur.user THEN 1 ELSE 0)

\* Outside the two writes of save_message_to_mongo: every document it got to
\* insert_one with, any number of times, without a PyMongoError and without a
\* termination between the two writes, has one row, and msg_count of a
\* (chat, user) none of whose documents met such a fault is the number of its
\* documents handled.
ExactlyOnce ==
    pc # "update"
        => /\ \A d \in handled \ faulted :
                Rows(messages, <<d.chat_id, d.msg_id>>) = 1
           /\ \A c \in Chats, u \in Users :
                (\A d \in faulted : ~(d.chat_id = c /\ d.user_id = u))
                    => CountOf(userstats, c, u) =
                         Cardinality({ d \in handled :
                                         d.chat_id = c /\ d.user_id = u })

\* C2: however often an update with the same (chat_id, msg_id) is delivered,
\* tg_messages holds one row for the key and the counters get one increment
\* for it; a duplicate insert changes nothing and skips the counters.
C2_Idempotent ==
    /\ [](UniqueKeys /\ UpdateFollowsInsert /\ ExactlyOnce)
    /\ [][DuplicateIsNoOp /\ InsertIsFresh /\ OneIncrement]_vars

\* Both updates of a batch carry the same loggable message; both went through
\* save_message_to_mongo; one row, one increment.
C2_Witness ==
    /\ BatchDone
    /\ Len(updates) = 2
    /\ Loggable(Upd(updates[1]))
    /\ Upd(updates[1]) = Upd(updates[2])
    /\ Doc(Upd(updates[1])) \in handled \ faulted
    /\ Rows(messages, Key(Upd(updates[1]))) = 1
    /\ CountOf(userstats, Upd(updates[1]).chat, Upd(updates[1]).user) = 1

\* -------------------------------------------------------------------- C3
\* C3: between event-processing steps, also after store failures and after a
\* crash and restart, msg_count of every (chat, user) equals the number of
\* rows stored for the pair.
C3_CountEqualsRows ==
    pc # "update"
        => \A c \in Chats, u \in Users :
              CountOf(userstats, c, u) = RowsOf(messages, c, u)

\* -------------------------------------------------------------------- C4
\* C4 (as a safety property every run must satisfy for the claim to hold):
\* a loggable update the upstream holds confirmed, and so never delivers
\* again, is stored.
C4_NoUpdateLost ==
    \A i \in DOMAIN upstream :
        (i <= confirmed /\ Loggable(upstream[i]))
            => Key(upstream[i]) \in StoredKeys(messages)


\* -------------------------------------------------------------------- C5
\* The update at hand is a re-delivery, after a termination, of a message
\* that was stored when the process terminated.
Replayed(u) ==
    crashes > 0 /\ Loggable(u) /\ Key(u) \in StoredKeys(atCrash.messages)

ReplayIsNoOp ==
    (pc = "save" /\ Replayed(Cur))
        => (messages' = messages /\ userstats' = userstats /\ pc' # "update")

C6_BatchNotAborted ==
    BatchLeft
        => \A k \in DOMAIN updates :
              (\E j \in 1..(k - 1) : reply[j] = "failed") => k \in saveCalled

\* -------------------------------------------------------------------- C7
\* C7: first_seen <= last_seen in every document of tg_user_stats, whatever
\* the order of the timestamps of the events handled.
C7_FirstSeenBeforeLastSeen ==
    \A s \in userstats : s.first_seen <= s.last_seen

\* -------------------------------------------------------------------- C8
\* C8: once the for loop over a fetched batch [p1..pk] has been entered, and
\* until the next fetch, the persisted offset is pk + 1, whatever became of
\* the updates of the batch.
C8_CursorPastBatch ==
    idx >= 1 => meta = updates[Len(updates)] + 1

\* A batch of two was handled to its end, one of its updates was not
\* loggable, and the persisted offset is the last update_id plus one.
C8_Witness ==
    /\ BatchDone
    /\ Len(updates) = 2
    /\ \E k \in DOMAIN updates : ~Loggable(Upd(updates[k]))
    /\ meta = updates[2] + 1

\* -------------------------------------------------------------------- C9
\* C9: the persisted offset never decreases, across terminations too.
C9_CursorMonotonic == [][meta' >= meta]_vars

\* After a termination and a restart the offset was written again, higher.
C9_Witness ==
    /\ crashes > 0
    /\ atCrash.meta # None
    /\ meta > atCrash.meta

\* ------------------------------------------------------------------- C10
\* C10: once the for loop over a batch is left, a reply has been issued for
\* every update of the batch whose text is /start or /stats.
C10_CommandsAnswered ==
    BatchLeft
        => \A k \in DOMAIN updates :
              IsCommand(Upd(updates[k])) => reply[k] # "none"


\* ------------------------------------------------------------------- C11
\* The invocations that were given the message with key k.
WorkersOf(k) == { w \in Workers : Loggable(wupd[w]) /\ Key(wupd[w]) = k }

Returned(w) == wpc[w] \in {"skipped", "stored", "duplicate", "failed"}

\* C11: when the same message is given to concurrent invocations of
\* save_message_to_mongo and all of them have returned without a PyMongoError,
\* under every interleaving tg_messages holds one row for it, one invocation
\* did the insert and the increment and every other one was stopped by the
\* unique index.
C11_ConcurrentDuplicate ==
    \A k \in { Key(p) : p \in Payloads } :
        (/\ WorkersOf(k) # {}
         /\ \A w \in WorkersOf(k) : Returned(w) /\ WDoc(w) \notin faulted)
            => /\ Rows(messages, k) = 1
               /\ Cardinality({ w \in WorkersOf(k) : wpc[w] = "stored" }) = 1
               /\ \A w \in WorkersOf(k) : wpc[w] \in {"stored", "duplicate"}
               /\ \A w \in WorkersOf(k) :
                     CountOf(userstats, wupd[w].chat, wupd[w].user) >= 1

\* Two invocations got the same message: one stored it, the other met the
\* duplicate key; one row, one increment.
C11_Witness ==
    \E w1, w2 \in Workers :
        /\ w1 # w2
        /\ Loggable(wupd[w1])
        /\ wupd[w1] = wupd[w2]
        /\ wpc[w1] = "stored"
        /\ wpc[w2] = "duplicate"
        /\ Rows(messages, Key(wupd[w1])) = 1
        /\ CountOf(userstats, wupd[w1].chat, wupd[w1].user) = 1

\* ------------------------------------------------------------------- C12
\* A /stats reply has just been sent for the update at hand.
StatsJustSent ==
    pc = "save" /\ reply[idx] = "sent" /\ CommandOf(Cur) = "/stats"

\* The two numbers of the reply about the chat: the events stored with this
\* chat_id (which are the events handled for it, when none met a fault) and
\* the users that have a counter document in it.
OriginNumbers ==
    /\ statsSent.chat = Cur.chat
    /\ statsSent.chat_msgs =
          Cardinality({ k \in StoredKeys(messages) : k[1] = Cur.chat })
    /\ (\A d \in faulted : d.chat_id # Cur.chat)
          => statsSent.chat_msgs =
                Cardinality({ d \in handled : d.chat_id = Cur.chat })
    /\ statsSent.chat_users =
          Cardinality({ u \in Users : CountOf(userstats, Cur.chat, u) > 0 })

C13_LoopNeverStops ==
    pc # "dead"

\* ------------------------------------------------------------------- C14
\* The callers of poll_loop that got past the guard of lines 181-184.
PastGuard ==
    { t \in Threads : tpc[t] \in {"started", "polling"} }

\* C14: for any number of start requests, concurrent ones included, at most
\* one pull loop proceeds past the start guard.
C14_SingleLoop ==
    Cardinality(PastGuard) <= 1

\* ------------------------------------------------------------------- C15
\* The invocations at work on a message of the pair (chat, user).
WorkersAt(chat, user) ==
    { w \in Workers : /\ Loggable(wupd[w])
                      /\ wupd[w].chat = chat /\ wupd[w].user = user
                      /\ wpc[w] \in {"save", "update"} }

\* No invocation is at work on the pair and none of its documents met a
\* fault between insert and increment.
Quiet(chat, user) ==
    /\ WorkersAt(chat, user) = {}
    /\ \A d \in faulted : ~(d.chat_id = chat /\ d.user_id = user)

\* One counter document per pair; once the invocations on the pair are over,
\* its count is the number of events they stored.
OneRowCountK ==
    \A c \in Chats, u \in Users :
        /\ Cardinality(StatsOf(userstats, c, u)) <= 1
        /\ Quiet(c, u) => CountOf(userstats, c, u) = RowsOf(messages, c, u)

\* Every change of a counter document is one step of one invocation, which
\* creates it with first_seen or keeps first_seen, and sets last_seen and
\* adds one to the count together.
UpsertIsWhole ==
    \A c \in Chats, u \in Users :
        StatsOf(userstats', c, u) # StatsOf(userstats, c, u)
            => \E w \in Workers :
                  /\ wpc[w] = "update" /\ wpc'[w] = "stored"
                  /\ wupd[w].chat = c /\ wupd[w].user = u
                  /\ StatsOf(userstats', c, u) =
                        { [chat_id |-> c, user_id |-> u,
                           first_seen |->
                               IF StatsOf(userstats, c, u) = {}
                               THEN wupd[w].ts
                               ELSE (CHOOSE s \in StatsOf(userstats, c, u) :
                                        TRUE).first_seen,
                           last_seen |-> wupd[w].ts,
                           msg_count |-> CountOf(userstats, c, u) + 1] }

\* C15: the counter upsert is one atomic step per (chat_id, user_id): k
\* concurrent fresh events of one user in one chat leave, in every
\* interleaving, one counter document with count k, and no state shows the
\* count incremented with last_seen not yet set.
C15_AtomicUpsert ==
    []OneRowCountK /\ [][UpsertIsWhole]_vars

\* Two invocations stored two different messages of the same user in the
\* same chat: one counter document, count 2.
C15_Witness ==
    \E w1, w2 \in Workers :
        /\ w1 # w2
        /\ wupd[w1] # wupd[w2]
        /\ wupd[w1].chat = wupd[w2].chat /\ wupd[w1].user = wupd[w2].user
        /\ wpc[w1] = "stored" /\ wpc[w2] = "stored"
        /\ Cardinality(StatsOf(userstats, wupd[w1].chat, wupd[w1].user)) = 1
        /\ CountOf(userstats, wupd[w1].chat, wupd[w1].user) = 2

\* ------------------------------------------------------------------- C16
\* The last get_updates of the loop failed with an error other than a
\* timeout, and the loop is back at the test of the active window.
AfterFetchError == pc = "check" /\ lastFetch = "error"

\* C16: after a fetch failed with a transport error other than a timeout,
\* the loop issues no further fetch until an idle window has elapsed: from
\* the test of the window it does not go straight to another fetch.
C16_ErrorWaitsIdle ==
    [][AfterFetchError => pc' # "fetch"]_vars

\* ------------------------------------------------------------------- C17
\* An update with no message, a service notification, or a message of a
\* chat that is neither a group nor a supergroup.
NotStorable(u) ==
    \/ u.kind = "none"
    \/ u.kind = "service"
    \/ ChatType(u.chat) \notin {"group", "supergroup"}

\* Handing such an update to save_message_to_mongo changes no collection and
\* meets no error: the loop goes on to the next update or to the end of the
\* batch.
SkipIsNoOp ==
    (pc = "save" /\ NotStorable(Cur))
        => /\ messages' = messages
           /\ userstats' = userstats
           /\ faulted' = faulted
           /\ pc' \notin {"save", "down"}
                 => /\ idx \in saveCalled'
                    /\ pc' = (IF idx < Len(updates) THEN "dispatch" ELSE "check")

OnlyGroupsStored ==
    /\ \A i \in DOMAIN messages :
          messages[i].chat_type \in {"group", "supergroup"}
    /\ \A s \in userstats : ChatType(s.chat_id) \in {"group", "supergroup"}

\* C17: an update with no message, a service notification or a message of a
\* chat that is not a group or supergroup goes through save_message_to_mongo
\* leaving tg_messages and tg_user_stats unchanged and raising no error;
\* every stored message is of a group or a supergroup.
C17_SkipLeavesStores ==
    []OnlyGroupsStored /\ [][SkipIsNoOp]_vars

\* A batch of a service notification and a private message went through
\* save_message_to_mongo to its end: both collections are empty.
C17_Witness ==
    /\ BatchDone
    /\ \E j, k \in DOMAIN updates :
          /\ Upd(updates[j]).kind = "service"
          /\ Upd(updates[k]).kind = "msg"
          /\ ChatType(Upd(updates[k]).chat) = "private"
    /\ messages = <<>>
    /\ userstats = {}

\* ------------------------------------------------------------------- C18
\* C18: in every reachable state, between the two writes of an invocation,
\* after store failures and terminations and with concurrent invocations
\* too, msg_count of every (chat, user) is at most the number of rows stored
\* for the pair, and a counter document exists only if a row is stored for
\* the pair.
C18_CountAtMostRows ==
    \A c \in Chats, u \in Users :
        /\ CountOf(userstats, c, u) <= RowsOf(messages, c, u)
        /\ StatsOf(userstats, c, u) # {} => RowsOf(messages, c, u) >= 1

\* One invocation stored a row and failed at the counters; another has
\* stored a second row of the same pair and is between its two writes: two
\* rows, no counter document yet.
C18_Witness ==
    \E w1, w2 \in Workers :
        /\ wpc[w1] = "failed" /\ WDoc(w1) \in faulted
        /\ wpc[w2] = "update"
        /\ wupd[w1].chat = wupd[w2].chat /\ wupd[w1].user = wupd[w2].user
        /\ RowsOf(messages, wupd[w2].chat, wupd[w2].user) = 2
        /\ CountOf(userstats, wupd[w2].chat, wupd[w2].user) = 0

\* ------------------------------------------------------------------- C19
\* C19: whenever the loop issues a fetch, the offset it passes is the value
\* persisted in tg_meta (or both are absent): the local offset never runs
\* ahead of the persisted one, also after a failed write of the offset.
C19_FetchFromPersisted ==
    pc = "fetch" => offset = meta

====
